---- MODULE Spec2Model ----
(***************************************************************************)
(* A model of fingertips_py: the client library of the Fingertips API.     *)
(*                                                                         *)
(* The library keeps no state between calls.  A behaviour of the model is  *)
(* one call of one public operation: the caller's arguments and the        *)
(* remote service's answers are chosen non-deterministically, the          *)
(* operation runs to its end, and the state records what it was called     *)
(* with (op, args), how it ended (out) and the requests it issued (log).   *)
(*                                                                         *)
(* Python values are tagged records [t |-> type, v |-> value]; text is a   *)
(* sequence of one-character strings, so that str(), lower(), "in" and     *)
(* the iteration over a str are computed and not assumed.                  *)
(***************************************************************************)
EXTENDS Integers, Sequences, FiniteSets, TLC

VARIABLES op, args, out, log

vars == <<op, args, out, log>>

(***************************************************************************)
(* Bounds of the model.                                                    *)
(***************************************************************************)
\* Longest table (in rows) the remote service answers a CSV request with.
MaxRows == 1
\* Longest list of IDs (indicators, domains, profiles, area types) a caller passes.
MaxIds == 2
\* Longest JSON array the remote service answers a JSON request with.
MaxItems == 3
\* Longest list of area types the remote service answers with.
MaxAreaTypes == 2

(***************************************************************************)
(* Python values.                                                          *)
(***************************************************************************)
None == [t |-> "None", v |-> <<>>]
PyInt(digits) == [t |-> "int", v |-> digits]
PyStr(chars) == [t |-> "str", v |-> chars]
PyList(elems) == [t |-> "list", v |-> elems]
PyBool(b) == [t |-> "bool", v |-> b]
\* A dict: its items in insertion order, each [k |-> key, v |-> value].
PyDict(items) == [t |-> "dict", v |-> items]

\* bool(x) as "if x:" computes it.
Truthy(x) ==
  CASE x.t = "None" -> FALSE
    [] x.t = "int" -> x.v # <<"0">>
    [] x.t = "bool" -> x.v
    [] OTHER -> x.v # <<>>

\* repr(x) of an int or a str.
Repr(x) == IF x.t = "str" THEN <<"'">> \o x.v \o <<"'">> ELSE x.v

RECURSIVE Join(_, _)
\* sep.join(parts), parts a sequence of texts.
Join(parts, sep) ==
  IF parts = <<>> THEN <<>>
  ELSE IF Len(parts) = 1 THEN parts[1]
  ELSE parts[1] \o sep \o Join(Tail(parts), sep)

\* [f(x) for x in s]
Map(f(_), s) == [i \in 1..Len(s) |-> f(s[i])]

\* str(x) of an int, a str or a list of them.
Str(x) ==
  IF x.t = "list" THEN <<"[">> \o Join(Map(Repr, x.v), <<",", " ">>) \o <<"]">> ELSE x.v

(***************************************************************************)
(* dict: keys are unique and keep the place of their first insertion.      *)
(***************************************************************************)
DictHas(d, k) == \E i \in 1..Len(d.v) : d.v[i].k = k
DictIndex(d, k) == CHOOSE i \in 1..Len(d.v) : d.v[i].k = k
\* d.get(k)
DictGet(d, k) == IF DictHas(d, k) THEN d.v[DictIndex(d, k)].v ELSE None
\* d[k] = x
\* A store that never overwrites: d[k] = x as an append.
DictAppended(d, k, x) == PyDict(Append(d.v, [k |-> k, v |-> x]))
DictSet(d, k, x) ==
  IF DictHas(d, k)
  THEN PyDict([d.v EXCEPT ![DictIndex(d, k)] = [k |-> k, v |-> x]])
  ELSE PyDict(Append(d.v, [k |-> k, v |-> x]))
\* A pop that leaves the key in the record: item.get(attr) for item.pop(attr).
DictKept(d, k) == d
\* d after d.pop(k), for a key d has.
DictWithout(d, k) == PyDict(SelectSeq(d.v, LAMBDA it : it.k # k))
\* list(d.keys()), list(d.values())
DictKeys(d) == [i \in 1..Len(d.v) |-> d.v[i].k]
DictValues(d) == [i \in 1..Len(d.v) |-> d.v[i].v]

(***************************************************************************)
(* str.lower() and the substring test "a in b".                            *)
(***************************************************************************)
UpperCase == <<"A", "B", "C", "D", "E", "F", "G", "H", "I", "J", "K", "L", "M",
               "N", "O", "P", "Q", "R", "S", "T", "U", "V", "W", "X", "Y", "Z">>
LowerCase == <<"a", "b", "c", "d", "e", "f", "g", "h", "i", "j", "k", "l", "m",
               "n", "o", "p", "q", "r", "s", "t", "u", "v", "w", "x", "y", "z">>
LowerChar(c) ==
  IF \E i \in 1..Len(UpperCase) : UpperCase[i] = c
  THEN LowerCase[CHOOSE i \in 1..Len(UpperCase) : UpperCase[i] = c]
  ELSE c
\* A lower() that was left out.
NotLowered(text) == text
lower(text) == [i \in 1..Len(text) |-> LowerChar(text[i])]
\* a in b
In(a, b) == \E i \in 0..(Len(b) - Len(a)) : SubSeq(b, i + 1, i + Len(a)) = a

\* Sequences over S of length at most n.
SeqsUpTo(S, n) == UNION {[1..k -> S] : k \in 0..n}

\* A local variable of the code: body is evaluated with the variable bound to value.
With(value, body(_)) == body(value)

(***************************************************************************)
(* Exceptions: urllib.error.HTTPError is a subclass of URLError, so an     *)
(* "except URLError" clause also catches an HTTPError.                     *)
(***************************************************************************)
IsInstance(exc, cls) ==
  \/ exc = cls
  \/ exc = "HTTPError" /\ cls = "URLError"

\* How a call ends.
Return(val, url, lg) ==
  [kind |-> "return", val |-> val, url |-> url, exc |-> "none", msg |-> <<>>, log |-> lg]
Raise(exc, msg, lg) ==
  [kind |-> "raise", val |-> None, url |-> None, exc |-> exc, msg |-> msg, log |-> lg]

(***************************************************************************)
(* Tables.  A remote CSV body is a sequence of data rows; a DataFrame is   *)
(* its set of columns and its rows, each with its index label idx.         *)
(***************************************************************************)
\* Area codes.
E1 == <<"E", "1">>
E2 == <<"E", "2">>
DataRows == {[AreaCode |-> E1, Value |-> 10], [AreaCode |-> E2, Value |-> 20]}
Tables == SeqsUpTo(DataRows, MaxRows)
DataCols == {"AreaCode", "Value"}

\* pd.DataFrame()
EmptyDataFrame == [cols |-> {}, rows |-> <<>>]

\* The DataFrame pandas parses from a CSV body: a RangeIndex 0..n-1.  The field
\* index is the column "index", which a DataFrame has only when it is in cols.
ParseCsv(body) ==
  [cols |-> DataCols,
   rows |-> [i \in 1..Len(body) |->
               [idx |-> i - 1, index |-> -1,
                AreaCode |-> body[i].AreaCode, Value |-> body[i].Value]]]

\* An assignment in place of the concatenation: df = b.
Replaced(a, b) == b

\* pd.concat([a, b]): the rows of a, then of b, each keeping its index label.
concat(a, b) == [cols |-> a.cols \cup b.cols, rows |-> a.rows \o b.rows]

\* The data of a row, without its index label.
RowData(r) == [AreaCode |-> r.AreaCode, Value |-> r.Value]
DataOf(df) == Map(RowData, df.rows)

(***************************************************************************)
(* The remote service.  One answer to a CSV request says how the first GET *)
(* (pandas over urllib) ends and, when it fails, how the relaxed GET       *)
(* (requests with verify=False) of the same URL would end.                 *)
(***************************************************************************)
CsvResponses ==
  {[first |-> "ok", relaxed |-> "none", body |-> b] : b \in Tables}
    \cup {[first |-> f, relaxed |-> "ok", body |-> b] :
            f \in {"HTTPError", "URLError"}, b \in Tables}
    \cup {[first |-> f, relaxed |-> "RequestException", body |-> <<>>] :
            f \in {"HTTPError", "URLError"}}

Url(path, query) == [path |-> path, query |-> query]
Param(k, v) == [k |-> k, v |-> v]

\* A request as the log keeps it: who issued it, for which URL, how it ended and,
\* when it was served, the table in its body.
Req(fn, url, res, body) == [fn |-> fn, url |-> url, res |-> res, body |-> body]

\* pd.read_csv(url): [exc, df, log].
read_csv(url, r) ==
  [exc |-> IF r.first = "ok" THEN "none" ELSE r.first,
   df |-> IF r.first = "ok" THEN ParseCsv(r.body) ELSE EmptyDataFrame,
   log |-> <<Req("read_csv", url, r.first, IF r.first = "ok" THEN r.body ELSE <<>>)>>]

\* deal_with_url_error(url): requests.get(url, verify=False), then read_csv of the text.
deal_with_url_error(url, r) ==
  [exc |-> IF r.relaxed = "ok" THEN "none" ELSE r.relaxed,
   df |-> IF r.relaxed = "ok" THEN ParseCsv(r.body) ELSE EmptyDataFrame,
   log |-> <<Req("deal_with_url_error", url, r.relaxed, r.body)>>]

(***************************************************************************)
(* Arguments a caller passes.                                              *)
(***************************************************************************)
Zero == PyInt(<<"0">>)
Seven == PyInt(<<"7">>)
Ten == PyInt(<<"1", "0">>)
SevenStr == PyStr(<<"7">>)
TenStr == PyStr(<<"1", "0">>)

ScalarIds == {Seven, Ten, SevenStr}
IdLists == {PyList(s) : s \in SeqsUpTo({Seven, TenStr}, MaxIds)}
OptionalIds == {None, Zero, Seven}
Flags == {PyBool(TRUE), PyBool(FALSE)}
AreaCodeFilters ==
  {None, PyStr(E1), PyList(<<>>), PyList(<<PyStr(E1)>>), PyList(<<PyStr(E2), PyStr(E1)>>)}
\* What a caller of get_metadata passes for one of its three parameters.
MetadataIds == {None, Zero, Seven, PyList(<<>>), PyList(<<TenStr>>)}

\* The default of parent_area_type_id: the England value.
DefaultParentAreaTypeId == PyInt(<<"1", "5">>)

(***************************************************************************)
(* retrieve_data.py and metadata.py: the operations that fetch one CSV.    *)
(***************************************************************************)
\* The comma-joined indicator IDs of get_data_by_indicator_ids and
\* get_all_data_for_indicators.
JoinIndicatorIds(indicator_ids) ==
  IF indicator_ids.t = "list"
  THEN IF \E i \in 1..Len(indicator_ids.v) : indicator_ids.v[i].t = "int"
       THEN Join(Map(Str, indicator_ids.v), <<",">>)
       ELSE Join([i \in 1..Len(indicator_ids.v) |-> indicator_ids.v[i].v], <<",">>)
  ELSE Str(indicator_ids)

\* try: df = pd.read_csv(url) / except URLError: df = deal_with_url_error(url)
\* [exc, df, log]
ReadCsvExceptURLError(url, r) ==
  LET a == read_csv(url, r) IN
  IF a.exc = "none" THEN a
  ELSE IF IsInstance(a.exc, "URLError")
       THEN LET b == deal_with_url_error(url, r) IN
            [exc |-> b.exc, df |-> b.df, log |-> a.log \o b.log]
       ELSE a

\* The try without its "except HTTPError" clause.
ReadCsvWithoutHTTPErrorClause(url, r) == ReadCsvExceptURLError(url, r)

\* try / except HTTPError: raise / except URLError: df = deal_with_url_error(url)
\* [exc, df, log]; exc = "raised" when the HTTPError clause raises.
ReadCsvExceptHTTPError(url, r) ==
  LET a == read_csv(url, r) IN
  IF a.exc = "none" THEN a
  ELSE IF IsInstance(a.exc, "HTTPError")
       THEN [exc |-> "raised", df |-> EmptyDataFrame, log |-> a.log]
       ELSE IF IsInstance(a.exc, "URLError")
            THEN LET b == deal_with_url_error(url, r) IN
                 [exc |-> b.exc, df |-> b.df, log |-> a.log \o b.log]
            ELSE a

\* if is_test: return df, url / return df
ReturnTable(df, url, is_test, lg) ==
  IF Truthy(is_test) THEN Return(df, url, lg) ELSE Return(df, None, lg)

get_data_by_indicator_ids(indicator_ids, area_type_id, parent_area_type_id, profile_id, include_sortable_time_periods, is_test, r) ==
  LET url_addition ==
        IF Truthy(profile_id) /\ ~Truthy(include_sortable_time_periods)
        THEN <<Param("profile_id", Str(profile_id))>>
        ELSE IF Truthy(include_sortable_time_periods) /\ ~Truthy(profile_id)
        THEN <<Param("include_sortable_time_periods", <<"y", "e", "s">>)>>
        ELSE IF Truthy(profile_id) /\ Truthy(include_sortable_time_periods)
        THEN <<Param("profile_id", Str(profile_id)),
               Param("include_sortable_time_periods", <<"y", "e", "s">>)>>
        ELSE <<>>
      populated_url ==
        Url("all_data/csv/by_indicator_id",
            <<Param("indicator_ids", JoinIndicatorIds(indicator_ids)),
              Param("child_area_type_id", Str(area_type_id)),
              Param("parent_area_type_id", Str(parent_area_type_id))>> \o url_addition)
      f == ReadCsvExceptURLError(populated_url, r)
  IN IF f.exc # "none" THEN Raise(f.exc, <<>>, f.log)
     ELSE ReturnTable(f.df, populated_url, is_test, f.log)

get_metadata_for_all_indicators_from_csv(is_test, r) ==
  LET url == Url("indicator_metadata/csv/all", <<>>)
      f == ReadCsvExceptURLError(url, r)
  IN IF f.exc # "none" THEN Raise(f.exc, <<>>, f.log)
     ELSE ReturnTable(f.df, url, is_test, f.log)

get_metadata_for_indicator_as_dataframe(indicator_ids, is_test, r) ==
  LET ids == IF indicator_ids.t = "list"
             THEN Join(Map(Str, indicator_ids.v), <<",">>)
             ELSE Str(indicator_ids)
      url == Url("indicator_metadata/csv/by_indicator_id", <<Param("indicator_ids", ids)>>)
      f == ReadCsvExceptHTTPError(url, r)
  IN IF f.exc = "raised"
     THEN Raise("NameError", <<"Indicator", ids, "does not exist">>, f.log)
     ELSE IF f.exc # "none" THEN Raise(f.exc, <<>>, f.log)
     ELSE ReturnTable(f.df, url, is_test, f.log)

\* df.reset_index(): a new RangeIndex, the old labels kept as the column "index".
reset_index(df) ==
  [cols |-> df.cols \cup {"index"},
   rows |-> [i \in 1..Len(df.rows) |->
               [idx |-> i - 1, index |-> df.rows[i].idx,
                AreaCode |-> df.rows[i].AreaCode, Value |-> df.rows[i].Value]]]

\* if filter_by_area_codes: df = df.loc[...]; df = df.reset_index()
\* [exc, df]
FilterByAreaCodes(df, filter_by_area_codes) ==
  IF ~Truthy(filter_by_area_codes) THEN [exc |-> "none", df |-> df]
  ELSE IF filter_by_area_codes.t \in {"list", "str"} /\ "AreaCode" \notin df.cols
  THEN [exc |-> "KeyError", df |-> df]
  ELSE LET isin(r) == \E i \in 1..Len(filter_by_area_codes.v) :
                        filter_by_area_codes.v[i].v = r.AreaCode
           eq(r) == r.AreaCode = filter_by_area_codes.v
           kept == IF filter_by_area_codes.t = "list"
                   THEN [cols |-> df.cols, rows |-> SelectSeq(df.rows, isin)]
                   ELSE IF filter_by_area_codes.t = "str"
                   THEN [cols |-> df.cols, rows |-> SelectSeq(df.rows, eq)]
                   ELSE df
       IN [exc |-> "none", df |-> reset_index(kept)]

get_all_data_for_indicators(indicators, area_type_id, parent_area_type_id, filter_by_area_codes, is_test, r) ==
  LET populated_url ==
        Url("all_data/csv/by_indicator_id",
            <<Param("indicator_ids", JoinIndicatorIds(indicators)),
              Param("child_area_type_id", Str(area_type_id)),
              Param("parent_area_type_id", Str(parent_area_type_id))>>)
      f == ReadCsvExceptURLError(populated_url, r)
      g == FilterByAreaCodes(f.df, filter_by_area_codes)
  IN IF f.exc # "none" THEN Raise(f.exc, <<>>, f.log)
     ELSE IF g.exc # "none" THEN Raise(g.exc, <<>>, f.log)
     ELSE ReturnTable(g.df, populated_url, is_test, f.log)

(***************************************************************************)
(* api_calls.py: the JSON transport and the normalizers.                   *)
(***************************************************************************)
\* The answers of the remote service to a JSON request whose body is one of bodies:
\* how the verified GET ends and, after an SSLError, how the unverified GET ends.
JsonResponses(bodies) ==
  {[first |-> "ok", second |-> "none", body |-> b] : b \in bodies}
    \cup {[first |-> "SSLError", second |-> "ok", body |-> b] : b \in bodies}
    \cup {[first |-> "ConnectionError", second |-> "none", body |-> <<>>],
          [first |-> "SSLError", second |-> "SSLError", body |-> <<>>],
          [first |-> "SSLError", second |-> "ConnectionError", body |-> <<>>]}

\* try: req = requests.get(url) / except SSLError: req = requests.get(url, verify=False)
\* [exc, body, log]
RequestsGet(url, r) ==
  LET a == Req("requests.get", url, r.first, <<>>)
      b == Req("requests.get(verify=False)", url, r.second, <<>>)
  IN IF r.first = "ok" THEN [exc |-> "none", body |-> r.body, log |-> <<a>>]
     ELSE IF r.first = "SSLError"
     THEN [exc |-> IF r.second = "ok" THEN "none" ELSE r.second,
           body |-> r.body, log |-> <<a, b>>]
     ELSE [exc |-> r.first, body |-> r.body, log |-> <<a>>]

RECURSIVE PopAndKey(_, _, _)
\* for item in json_response: name = item.pop(attr); data[name] = item
\* [exc, data]
PopAndKey(json_response, attr, data) ==
  IF json_response = <<>> THEN [exc |-> "none", data |-> data]
  ELSE LET item == json_response[1] IN
       IF ~DictHas(item, attr) THEN [exc |-> "KeyError", data |-> data]
       ELSE PopAndKey(Tail(json_response), attr,
                      DictSet(data, DictGet(item, attr), DictWithout(item, attr)))

make_request(url, attr, r) ==
  LET req == RequestsGet(url, r)
      res == PopAndKey(req.body, attr, PyDict(<<>>))
  IN IF req.exc # "none" THEN Raise(req.exc, <<>>, req.log)
     ELSE IF res.exc # "none" THEN Raise(res.exc, <<>>, req.log)
     ELSE Return(res.data, None, req.log)

get_json(url, r) ==
  With(RequestsGet(url, r), LAMBDA req :
    IF req.exc # "none" THEN Raise(req.exc, <<>>, req.log)
    ELSE Return(req.body, None, req.log))

\* float('nan'): the cell of a column the object of the row has no key for.
NaN == [t |-> "float", v |-> <<"n", "a", "n">>]

RECURSIVE ColumnsOf(_, _)
\* The keys of a list of objects, in the order of their first appearance.
ColumnsOf(objects, seen) ==
  IF objects = <<>> THEN seen
  ELSE ColumnsOf(Tail(objects),
                 seen \o SelectSeq(DictKeys(objects[1]),
                                   LAMBDA k : ~\E i \in 1..Len(seen) : seen[i] = k))

\* pd.read_json of a list of objects: a row per object under the labels 0..n-1, a
\* column per key.  (The TypeError clause of get_json_return_df is for bodies that
\* are not such a list.)
read_json(content) ==
  With(ColumnsOf(content, <<>>), LAMBDA columns :
    [index |-> [i \in 1..Len(content) |-> i - 1],
     columns |-> columns,
     cells |-> [i \in 1..Len(content) |->
                 [j \in 1..Len(columns) |->
                    IF DictHas(content[i], columns[j])
                    THEN DictGet(content[i], columns[j]) ELSE NaN]]])

\* df.transpose()
transpose(df) ==
  [index |-> df.columns,
   columns |-> df.index,
   cells |-> [j \in 1..Len(df.columns) |->
               [i \in 1..Len(df.index) |-> df.cells[i][j]]]]

get_json_return_df(url, to_transpose, r) ==
  With(RequestsGet(url, r), LAMBDA req :
    IF req.exc # "none" THEN Raise(req.exc, <<>>, req.log)
    ELSE Return(IF to_transpose THEN transpose(read_json(req.body))
                ELSE read_json(req.body),
                None, req.log))

\* The default None of the parameters key and value, which name a field.
NoField == "<None>"

RECURSIVE KeyPick(_, _, _, _)
\* for js in json_list: json_dict[js.get(key)] = js (or js.get(value))
KeyPick(json_list, key, value, json_dict) ==
  IF json_list = <<>> THEN json_dict
  ELSE LET js == json_list[1] IN
       KeyPick(Tail(json_list), key, value,
               DictSet(json_dict, DictGet(js, key),
                       IF value = NoField THEN js ELSE DictGet(js, value)))

get_data_in_dict(url, key, value, r) ==
  With(get_json(url, r), LAMBDA got :
    IF got.kind = "raise" THEN got
    ELSE IF key = NoField /\ (got.val = <<>> \/ got.val[1].v = <<>>)
    THEN Raise("IndexError", <<>>, got.log)
    ELSE With(IF key = NoField THEN DictKeys(got.val[1])[1] ELSE key, LAMBDA k :
           Return(KeyPick(got.val, k, value, PyDict(<<>>)), None, got.log)))

(***************************************************************************)
(* metadata.py: profiles by name and the multiplier and calculation method *)
(* of an indicator.                                                        *)
(***************************************************************************)
get_all_profiles(is_test, r) ==
  LET profiles == get_data_in_dict(Url("profiles", <<>>), NoField, NoField, r)
  IN IF profiles.kind = "raise" THEN profiles
     ELSE IF Truthy(is_test)
     THEN Return(profiles.val, Url("profiles", <<>>), profiles.log)
     ELSE profiles

RECURSIVE FirstProfileNamed(_, _, _)
\* The loop with a break at the first match.
FirstProfileNamed(profiles, profile_name, profile_obj) ==
  IF profiles = <<>> THEN [exc |-> "none", profile_obj |-> profile_obj]
  ELSE LET profile == profiles[1]
           name == DictGet(profile, "Name")
       IN IF name = None THEN [exc |-> "AttributeError", profile_obj |-> profile_obj]
          ELSE IF In(lower(profile_name.v), lower(name.v))
          THEN [exc |-> "none", profile_obj |-> profile]
          ELSE FirstProfileNamed(Tail(profiles), profile_name, profile_obj)

RECURSIVE LastProfileNamed(_, _, _)
\* for profile in all_profiles.values():
\*     if profile_name.lower() in profile.get('Name').lower(): profile_obj = profile
\* [exc, profile_obj]
LastProfileNamed(profiles, profile_name, profile_obj) ==
  IF profiles = <<>> THEN [exc |-> "none", profile_obj |-> profile_obj]
  ELSE LET profile == profiles[1]
           name == DictGet(profile, "Name")
       IN IF name = None THEN [exc |-> "AttributeError", profile_obj |-> profile_obj]
          ELSE LastProfileNamed(Tail(profiles), profile_name,
                                IF In(lower(profile_name.v), lower(name.v))
                                THEN profile ELSE profile_obj)

ProfileNotFound == PyStr(<<"Profile could not be found">>)

get_profile_by_name(profile_name, r) ==
  LET all_profiles == get_all_profiles(PyBool(FALSE), r)
      found == LastProfileNamed(DictValues(all_profiles.val), profile_name, PyStr(<<>>))
  IN IF all_profiles.kind = "raise" THEN all_profiles
     ELSE IF found.exc # "none" THEN Raise(found.exc, <<>>, all_profiles.log)
     ELSE IF ~Truthy(found.profile_obj) THEN Return(ProfileNotFound, None, all_profiles.log)
     ELSE Return(found.profile_obj, None, all_profiles.log)

get_metadata_for_indicator(indicator_number, is_test, r) ==
  LET url == Url("indicator_metadata/by_indicator_id",
                 <<Param("indicator_ids", Str(indicator_number))>>)
      metadata == get_json(url, r)
  IN IF metadata.kind = "raise" THEN metadata
     ELSE IF Truthy(is_test) THEN Return(metadata.val, url, metadata.log)
     ELSE Return(DictGet(metadata.val, Str(indicator_number)), None, metadata.log)

Wilson == <<"W", "i", "l", "s", "o", "n">>
Byar == <<"B", "y", "a", "r">>

\* The result is the pair <<multiplier, calc>>.
get_multiplier_and_calculation_for_indicator(indicator_number, r) ==
  LET got == get_metadata_for_indicator(indicator_number, PyBool(FALSE), r)
      metadata == got.val
      Unit == DictGet(metadata, "Unit")
      ConfidenceIntervalMethod == DictGet(metadata, "ConfidenceIntervalMethod")
      multiplier == DictGet(Unit, "Value")
      calc_metadata == DictGet(ConfidenceIntervalMethod, "Name")
      calc == IF In(lower(Wilson), lower(calc_metadata.v)) THEN PyStr(Wilson)
              ELSE IF In(lower(Byar), lower(calc_metadata.v)) THEN PyStr(Byar)
              ELSE None
  IN IF got.kind = "raise" THEN got
     ELSE IF metadata = None \/ Unit = None \/ ConfidenceIntervalMethod = None
               \/ calc_metadata = None
     THEN Raise("AttributeError", <<>>, got.log)
     ELSE Return(<<multiplier, calc>>, None, got.log)

(***************************************************************************)
(* metadata.py: the reference lists and the profile by ID.                 *)
(***************************************************************************)
\* x = <the call got>; if is_test: return x, url / return x
ReturnWithUrl(got, url, is_test) ==
  IF got.kind = "raise" THEN got
  ELSE IF Truthy(is_test) THEN Return(got.val, url, got.log)
  ELSE got

get_all_ages(is_test, r) ==
  ReturnWithUrl(get_data_in_dict(Url("ages", <<>>), NoField, NoField, r),
                Url("ages", <<>>), is_test)

get_all_areas(is_test, r) ==
  ReturnWithUrl(make_request(Url("area_types", <<>>), "Id", r),
                Url("area_types", <<>>), is_test)

get_all_sexes(is_test, r) ==
  ReturnWithUrl(get_data_in_dict(Url("sexes", <<>>), NoField, "Name", r),
                Url("sexes", <<>>), is_test)

get_all_value_notes(is_test, r) ==
  ReturnWithUrl(get_data_in_dict(Url("value_notes", <<>>), NoField, "Text", r),
                Url("value_notes", <<>>), is_test)

get_areas_for_area_type(area_type_id, is_test, r) ==
  With(Url("areas/by_area_type", <<Param("area_type_id", Str(area_type_id))>>), LAMBDA url :
    ReturnWithUrl(make_request(url, "Code", r), url, is_test))

\* "yes" if flag else "no"
YesNo(flag) == IF Truthy(flag) THEN <<"y", "e", "s">> ELSE <<"n", "o">>

get_metadata_for_all_indicators(include_definition, include_system_content, is_test, r) ==
  With(Url("indicator_metadata/all",
           <<Param("include_definition", YesNo(include_definition)),
             Param("include_system_content", YesNo(include_system_content))>>), LAMBDA url :
    ReturnWithUrl(get_json(url, r), url, is_test))

get_area_types_as_dict(is_test, r) ==
  ReturnWithUrl(get_data_in_dict(Url("area_types", <<>>), NoField, NoField, r),
                Url("area_types", <<>>), is_test)

get_profile_by_id(profile_id, is_test, r) ==
  With(Url("profile", <<Param("profile_id", Str(profile_id))>>), LAMBDA url :
    ReturnWithUrl(get_json(url, r), url, is_test))

(***************************************************************************)
(* metadata.py: the identifier lookups.                                    *)
(***************************************************************************)
\* A lookup that returns the record itself: ages[age] for ages[age]['Id'].
WholeRecord(record, field) == record

\* record[field] of a record that has the field.
FieldOf(record, field) == DictGet(record, field)

\* mapping = make_request(base_url + path, attr)
\* if is_test: return mapping[key][field], base_url + path / return mapping[key][field]
LookUp(path, attr, field, key, is_test, r) ==
  With(Url(path, <<>>), LAMBDA url :
    With(make_request(url, attr, r), LAMBDA mapping :
      IF mapping.kind = "raise" THEN mapping
      ELSE IF ~DictHas(mapping.val, key) THEN Raise("KeyError", <<>>, mapping.log)
      ELSE IF ~DictHas(DictGet(mapping.val, key), field)
      THEN Raise("KeyError", <<>>, mapping.log)
      ELSE ReturnTable(FieldOf(DictGet(mapping.val, key), field), url, is_test,
                       mapping.log)))

get_age_id(age, is_test, r) == LookUp("ages", "Name", "Id", age, is_test, r)
get_age_from_id(age_id, is_test, r) == LookUp("ages", "Id", "Name", age_id, is_test, r)
get_sex_id(sex, is_test, r) == LookUp("sexes", "Name", "Id", sex, is_test, r)
get_sex_from_id(sex_id, is_test, r) == LookUp("sexes", "Id", "Name", sex_id, is_test, r)
get_value_note_id(value_note, is_test, r) ==
  LookUp("value_notes", "Text", "Id", value_note, is_test, r)

(***************************************************************************)
(* metadata.py: the per-ID loops of the domain and profile metadata, and   *)
(* get_metadata.                                                           *)
(***************************************************************************)
RECURSIVE ReadCsvPerId(_, _, _, _, _, _, _)
\* for id in ids: try: df = pd.concat([df, pd.read_csv(url)])
\*                except HTTPError: raise NameError / except URLError: df = deal_with_url_error(url)
ReadCsvPerId(path, param, what, ids, tape, df, lg) ==
  IF ids = <<>> THEN Return(df, None, lg)
  ELSE LET url == Url(path, <<Param(param, Str(ids[1]))>>)
           a == read_csv(url, tape[1])
           b == deal_with_url_error(url, tape[1])
       IN IF a.exc = "none"
          THEN ReadCsvPerId(path, param, what, Tail(ids), Tail(tape),
                            concat(df, a.df), lg \o a.log)
          ELSE IF IsInstance(a.exc, "HTTPError")
          THEN Raise("NameError", <<what, Str(ids[1]), "does not exist">>, lg \o a.log)
          ELSE IF IsInstance(a.exc, "URLError")
          THEN IF b.exc = "none"
               THEN ReadCsvPerId(path, param, what, Tail(ids), Tail(tape),
                                 b.df, lg \o a.log \o b.log)
               ELSE Raise(b.exc, <<>>, lg \o a.log \o b.log)
          ELSE Raise(a.exc, <<>>, lg \o a.log)

\* The table of one ID or of a list of IDs.
ReadCsvForIds(path, param, what, ids, tape) ==
  IF ids.t = "list"
  THEN ReadCsvPerId(path, param, what, ids.v, tape, EmptyDataFrame, <<>>)
  ELSE LET f == ReadCsvExceptHTTPError(Url(path, <<Param(param, Str(ids))>>), tape[1])
       IN IF f.exc = "raised"
          THEN Raise("NameError", <<what, Str(ids), "does not exist">>, f.log)
          ELSE IF f.exc # "none" THEN Raise(f.exc, <<>>, f.log)
          ELSE Return(f.df, None, f.log)

get_metadata_for_domain_as_dataframe(group_ids, is_test, tape) ==
  LET res == ReadCsvForIds("indicator_metadata/csv/by_group_id", "group_id", "Domain",
                           group_ids, tape)
      url == Url("indicator_metadata/csv/by_group_id", <<Param("group_id", Str(group_ids))>>)
  IN IF res.kind = "raise" THEN res
     ELSE ReturnTable(res.val, url, is_test, res.log)

get_metadata_for_profile_as_dataframe(profile_ids, tape) ==
  ReadCsvForIds("indicator_metadata/csv/by_profile_id", "profile_id", "Profile",
                profile_ids, tape)

\* The number of requests a call with these IDs issues when none fails.
NReq(ids) == IF ids.t = "list" THEN Len(ids.v) ELSE 1

\* pd.concat([df, <the call b>]) after the call a returned df.
Then(a, b) ==
  IF a.kind = "raise" THEN a
  ELSE IF b.kind = "raise" THEN [b EXCEPT !.log = a.log \o b.log]
  ELSE Return(concat(a.val, b.val), None, a.log \o b.log)

\* The rest of a tape after its first n answers.
Drop(tape, n) == SubSeq(tape, n + 1, Len(tape))

get_metadata(indicator_ids, domain_ids, profile_ids, tape) ==
  LET P(t) == get_metadata_for_profile_as_dataframe(profile_ids, t)
      D(t) == get_metadata_for_domain_as_dataframe(domain_ids, PyBool(FALSE), t)
      I(t) == get_metadata_for_indicator_as_dataframe(indicator_ids, PyBool(FALSE), t[1])
      np == NReq(profile_ids)
      nd == NReq(domain_ids)
  IN IF Truthy(indicator_ids) /\ Truthy(domain_ids) /\ Truthy(profile_ids)
     THEN Then(Then(P(tape), D(Drop(tape, np))), I(Drop(tape, np + nd)))
     ELSE IF Truthy(indicator_ids) /\ Truthy(domain_ids)
     THEN Then(D(tape), I(Drop(tape, nd)))
     ELSE IF Truthy(indicator_ids) /\ Truthy(profile_ids)
     THEN Then(P(tape), I(Drop(tape, np)))
     ELSE IF Truthy(domain_ids) /\ Truthy(profile_ids)
     THEN Then(P(tape), D(Drop(tape, np)))
     ELSE IF Truthy(profile_ids) THEN P(tape)
     ELSE IF Truthy(domain_ids) THEN D(tape)
     ELSE IF Truthy(indicator_ids) THEN I(tape)
     ELSE Raise("NameError",
                <<"At least one of indicator_ids, domain_ids, or profile_ids must be provided.">>,
                <<>>)

(***************************************************************************)
(* metadata.py and retrieve_data.py: the area types of a profile and of    *)
(* the indicators, and the data of a profile and of an indicator.          *)
(***************************************************************************)
get_area_types_for_profile(profile_id, is_test, r) ==
  With(Url("area_types", <<Param("profile_ids", Str(profile_id))>>), LAMBDA url :
    With(get_data_in_dict(url, NoField, NoField, r), LAMBDA got :
      IF got.kind = "raise" THEN got
      ELSE IF Truthy(is_test) THEN Return(got.val, url, got.log)
      ELSE got))

\* The result is the list of the IDs.
get_area_type_ids_for_profile(profile_id, r) ==
  With(get_area_types_for_profile(profile_id, PyBool(FALSE), r), LAMBDA area_type_obj :
    IF area_type_obj.kind = "raise" THEN area_type_obj
    ELSE With(DictValues(area_type_obj.val), LAMBDA values :
           Return(PyList([i \in 1..Len(values) |-> DictGet(values[i], "Id")]),
                  None, area_type_obj.log)))

\* The elements "for x in xs" visits: those of a list, the characters of a str.
Iterate(xs) ==
  IF xs.t = "str" THEN [i \in 1..Len(xs.v) |-> PyStr(<<xs.v[i]>>)] ELSE xs.v

\* The URL of the data of one area type of a profile.
ProfileDataUrl(area, parent_area_type_id, profile_id) ==
  Url("all_data/csv/by_profile_id",
      <<Param("child_area_type_id", Str(area)),
        Param("parent_area_type_id", Str(parent_area_type_id)),
        Param("profile_id", Str(profile_id))>>)

RECURSIVE ReadCsvPerAreaType(_, _, _, _, _, _, _)
\* for area in area_types: try: df_returned = pd.read_csv(url)
\*     except HTTPError: raise Exception / except URLError: df_returned = deal_with_url_error(url)
\*     df = pd.concat([df, df_returned])
\* The result carries the last populated_url, or None before the first iteration.
ReadCsvPerAreaType(area_types, parent_area_type_id, profile_id, tape, df, populated_url, lg) ==
  IF area_types = <<>> THEN Return(df, populated_url, lg)
  ELSE With(ProfileDataUrl(area_types[1], parent_area_type_id, profile_id), LAMBDA url :
         With(ReadCsvExceptHTTPError(url, tape[1]), LAMBDA f :
           IF f.exc = "raised"
           THEN Raise("Exception",
                      <<"There has been a server error with Fingertips for this request. ">>,
                      lg \o f.log)
           ELSE IF f.exc # "none" THEN Raise(f.exc, <<>>, lg \o f.log)
           ELSE ReadCsvPerAreaType(Tail(area_types), parent_area_type_id, profile_id,
                                   Tail(tape), concat(df, f.df), url, lg \o f.log)))

\* The area types get_all_data_for_profile fetches: a call result whose value is
\* the sequence the loop visits.
AreaTypesToFetch(profile_id, area_type_id, r) ==
  IF area_type_id # None
  THEN IF area_type_id.t = "int"
       THEN Return(<<area_type_id>>, None, <<>>)
       ELSE Return(Iterate(area_type_id), None, <<>>)
  ELSE With(get_area_type_ids_for_profile(profile_id, r), LAMBDA ids :
         IF ids.kind = "raise" THEN ids ELSE Return(ids.val.v, None, ids.log))

get_all_data_for_profile(profile_id, parent_area_type_id, area_type_id, filter_by_area_codes, is_test, r, tape) ==
  With(AreaTypesToFetch(profile_id, area_type_id, r), LAMBDA area_types :
    IF area_types.kind = "raise" THEN area_types
    ELSE With(ReadCsvPerAreaType(area_types.val, parent_area_type_id, profile_id, tape,
                                 EmptyDataFrame, None, area_types.log), LAMBDA fetched :
      IF fetched.kind = "raise" THEN fetched
      ELSE With(FilterByAreaCodes(fetched.val, filter_by_area_codes), LAMBDA g :
        IF g.exc # "none" THEN Raise(g.exc, <<>>, fetched.log)
        ELSE IF Truthy(is_test)
        THEN IF fetched.url = None THEN Raise("UnboundLocalError", <<>>, fetched.log)
             ELSE Return(g.df, fetched.url, fetched.log)
        ELSE Return(g.df, None, fetched.log))))

RECURSIVE AreaTypesOf(_, _)
\* [item.get('AreaTypeId') for item in all_area_ids if item.get('IndicatorId') == ind]
AreaTypesOf(all_area_ids, ind) ==
  IF all_area_ids = <<>> THEN <<>>
  ELSE (IF DictGet(all_area_ids[1], "IndicatorId") = ind
        THEN <<DictGet(all_area_ids[1], "AreaTypeId")>> ELSE <<>>)
         \o AreaTypesOf(Tail(all_area_ids), ind)

\* The value of an int.
RECURSIVE IntOf(_)
IntOf(digits) ==
  IF digits = <<>> THEN 0
  ELSE 10 * IntOf(SubSeq(digits, 1, Len(digits) - 1))
         + (CHOOSE d \in 0..9 : <<"0", "1", "2", "3", "4", "5", "6", "7", "8", "9">>[d + 1]
                                  = digits[Len(digits)])

RECURSIVE SortedDescending(_)
\* The ints of a set, the greatest first.
SortedDescending(ids) ==
  IF ids = {} THEN <<>>
  ELSE LET greatest == CHOOSE x \in ids : \A y \in ids : IntOf(x.v) >= IntOf(y.v)
       IN <<greatest>> \o SortedDescending(ids \ {greatest})

RECURSIVE SortedInts(_)
\* sorted(ids) of a set of ints.
SortedInts(ids) ==
  IF ids = {} THEN <<>>
  ELSE LET least == CHOOSE x \in ids : \A y \in ids : IntOf(x.v) <= IntOf(y.v)
       IN <<least>> \o SortedInts(ids \ {least})

\* The result is a dict from indicator ID to the list of its area-type IDs.
get_all_areas_for_all_indicators(r) ==
  With(get_json(Url("available_data", <<>>), r), LAMBDA got :
    IF got.kind = "raise" THEN got
    ELSE With(SortedInts({DictGet(got.val[i], "IndicatorId") : i \in 1..Len(got.val)}),
              LAMBDA all_indicators :
           Return(PyDict([i \in 1..Len(all_indicators) |->
                            [k |-> all_indicators[i],
                             v |-> PyList(AreaTypesOf(got.val, all_indicators[i]))]]),
                  None, got.log)))

\* The rows as they are: nothing is dropped.
KeepDuplicates(rows) == rows

RECURSIVE drop_duplicates(_)
\* df.drop_duplicates(): of the rows equal in every column, the first is kept.
drop_duplicates(rows) ==
  IF rows = <<>> THEN <<>>
  ELSE LET last == rows[Len(rows)]
           before == SubSeq(rows, 1, Len(rows) - 1)
       IN IF \E i \in 1..Len(before) : RowData(before[i]) = RowData(last)
          THEN drop_duplicates(before)
          ELSE Append(drop_duplicates(before), last)

RECURSIVE ReadCsvPerGeography(_, _, _, _, _)
\* for area in areas_to_get: df_temp = get_data_by_indicator_ids(indicator_id, area)
\*                           df = pd.concat([df, df_temp])
ReadCsvPerGeography(indicator_id, areas_to_get, tape, df, lg) ==
  IF areas_to_get = <<>> THEN Return(df, None, lg)
  ELSE With(get_data_by_indicator_ids(indicator_id, areas_to_get[1],
                                      DefaultParentAreaTypeId, None, None,
                                      PyBool(FALSE), tape[1]), LAMBDA df_temp :
         IF df_temp.kind = "raise" THEN [df_temp EXCEPT !.log = lg \o df_temp.log]
         ELSE ReadCsvPerGeography(indicator_id, Tail(areas_to_get), Tail(tape),
                                  concat(df, df_temp.val), lg \o df_temp.log))

\* The area types of the indicator: a call result whose value is dict.get(indicator_id).
AreasToGet(indicator_id, r) ==
  With(get_all_areas_for_all_indicators(r), LAMBDA all_area_for_all_indicators :
    IF all_area_for_all_indicators.kind = "raise" THEN all_area_for_all_indicators
    ELSE Return(DictGet(all_area_for_all_indicators.val, indicator_id), None,
                all_area_for_all_indicators.log))

get_data_for_indicator_at_all_available_geographies(indicator_id, r, tape) ==
  With(AreasToGet(indicator_id, r), LAMBDA areas_to_get :
    IF areas_to_get.kind = "raise" THEN areas_to_get
    ELSE IF areas_to_get.val = None THEN Raise("TypeError", <<>>, areas_to_get.log)
    ELSE With(ReadCsvPerGeography(indicator_id, areas_to_get.val.v, tape,
                                  EmptyDataFrame, areas_to_get.log), LAMBDA fetched :
      IF fetched.kind = "raise" THEN fetched
      ELSE Return([cols |-> fetched.val.cols,
                   rows |-> drop_duplicates(fetched.val.rows)],
                  None, fetched.log)))

(***************************************************************************)
(* The state before a call, and one action per public operation.           *)
(***************************************************************************)
Idle == [kind |-> "idle", val |-> None, url |-> None, exc |-> "none", msg |-> <<>>,
         log |-> <<>>]

Init ==
  /\ op = "idle"
  /\ args = <<>>
  /\ out = Idle
  /\ log = <<>>

\* The call of operation name with arguments a ended as res.
Called(name, a, res) ==
  /\ op' = name
  /\ args' = a
  /\ out' = res
  /\ log' = res.log

GetDataByIndicatorIds ==
  /\ op = "idle"
  /\ \E indicator_ids \in ScalarIds \cup IdLists, area_type_id \in {Seven, TenStr},
        profile_id \in OptionalIds, include_sortable_time_periods \in {None} \cup Flags,
        is_test \in Flags, r \in CsvResponses :
       /\ Called("get_data_by_indicator_ids",
              [indicator_ids |-> indicator_ids, area_type_id |-> area_type_id,
               profile_id |-> profile_id,
               include_sortable_time_periods |-> include_sortable_time_periods,
               is_test |-> is_test, r |-> r],
              get_data_by_indicator_ids(indicator_ids, area_type_id, DefaultParentAreaTypeId,
                                        profile_id, include_sortable_time_periods, is_test, r))

GetMetadataForAllIndicatorsFromCsv ==
  /\ op = "idle"
  /\ \E is_test \in Flags, r \in CsvResponses :
       /\ Called("get_metadata_for_all_indicators_from_csv", [is_test |-> is_test, r |-> r],
              get_metadata_for_all_indicators_from_csv(is_test, r))

GetMetadataForIndicatorAsDataframe ==
  /\ op = "idle"
  /\ \E indicator_ids \in ScalarIds \cup IdLists, is_test \in Flags, r \in CsvResponses :
       /\ Called("get_metadata_for_indicator_as_dataframe",
              [indicator_ids |-> indicator_ids, is_test |-> is_test, r |-> r],
              get_metadata_for_indicator_as_dataframe(indicator_ids, is_test, r))

GetAllDataForIndicators ==
  /\ op = "idle"
  /\ \E indicators \in ScalarIds \cup IdLists, area_type_id \in {Seven, TenStr},
        filter_by_area_codes \in AreaCodeFilters, is_test \in Flags, r \in CsvResponses :
       /\ Called("get_all_data_for_indicators",
              [indicators |-> indicators, area_type_id |-> area_type_id,
               filter_by_area_codes |-> filter_by_area_codes, is_test |-> is_test,
               r |-> r],
              get_all_data_for_indicators(indicators, area_type_id, DefaultParentAreaTypeId,
                                          filter_by_area_codes, is_test, r))

GetMetadataForDomainAsDataframe ==
  /\ op = "idle"
  /\ \E group_ids \in ScalarIds \cup IdLists, is_test \in Flags :
       \E tape \in [1..NReq(group_ids) -> CsvResponses] :
         /\ Called("get_metadata_for_domain_as_dataframe",
                [ids |-> group_ids, is_test |-> is_test, tape |-> tape],
                get_metadata_for_domain_as_dataframe(group_ids, is_test, tape))

GetMetadataForProfileAsDataframe ==
  /\ op = "idle"
  /\ \E profile_ids \in ScalarIds \cup IdLists :
       \E tape \in [1..NReq(profile_ids) -> CsvResponses] :
         /\ Called("get_metadata_for_profile_as_dataframe",
                [ids |-> profile_ids, is_test |-> PyBool(FALSE), tape |-> tape],
                get_metadata_for_profile_as_dataframe(profile_ids, tape))

\* The requests get_metadata issues for a parameter when none fails.
NReqIfGiven(ids) == IF Truthy(ids) THEN NReq(ids) ELSE 0

GetMetadata ==
  /\ op = "idle"
  /\ \E indicator_ids \in MetadataIds, domain_ids \in MetadataIds, profile_ids \in MetadataIds :
       \E tape \in [1..(NReqIfGiven(indicator_ids) + NReqIfGiven(domain_ids)
                          + NReqIfGiven(profile_ids)) -> CsvResponses] :
         /\ Called("get_metadata",
                [indicator_ids |-> indicator_ids, domain_ids |-> domain_ids,
                 profile_ids |-> profile_ids, tape |-> tape],
                get_metadata(indicator_ids, domain_ids, profile_ids, tape))

NextCsv ==
  \/ GetDataByIndicatorIds
  \/ GetAllDataForIndicators
  \/ GetMetadataForAllIndicatorsFromCsv
  \/ GetMetadataForIndicatorAsDataframe

\* The operations that fetch one CSV table.
SpecCsv == Init /\ [][NextCsv]_vars

NextPerId ==
  \/ GetMetadataForDomainAsDataframe
  \/ GetMetadataForProfileAsDataframe

\* The metadata tables by domain and by profile: one request per ID.
SpecPerId == Init /\ [][NextPerId]_vars

NextMetadata == GetMetadata

\* get_metadata, by any of its three parameters.
SpecMetadata == Init /\ [][NextMetadata]_vars

(***************************************************************************)
(* The JSON bodies the remote service answers with.                        *)
(***************************************************************************)
Object(id, name) == PyDict(<<[k |-> "Id", v |-> id], [k |-> "Name", v |-> name]>>)

Ab == <<"A", "b">>
aBc == <<"a", "B", "c">>

\* Objects of a reference list (profiles, ages, ...), one of them without a Name.
JsonObjects ==
  {Object(id, PyStr(name)) : id \in {PyInt(<<"1">>), PyInt(<<"2">>)}, name \in {Ab, aBc}}
    \cup {PyDict(<<[k |-> "Id", v |-> PyInt(<<"3">>)]>>)}
JsonLists == SeqsUpTo(JsonObjects, MaxItems)

\* What a caller searches a profile name for.
SearchTexts == {PyStr(<<"a", "b">>), PyStr(<<"B", "C">>), PyStr(<<"z">>)}

\* Names of confidence-interval methods.
MethodNames ==
  {Byar, Wilson,
   <<"B", "Y", "A", "R", "'", "s">>,
   <<"w", "i", "l", "s", "o", "n", " ", "s", "c", "o", "r", "e">>,
   <<"B", "y", "a", "r", "/", "W", "i", "l", "s", "o", "n">>,
   <<"W", "i", "l", "s", "o", "n", "+", "b", "y", "a", "r">>,
   <<"N", "o", "r", "m", "a", "l">>,
   <<"B", "y", "a">>,
   <<>>}

IndicatorMetadata(value, name) ==
  PyDict(<<[k |-> "Unit", v |-> PyDict(<<[k |-> "Value", v |-> value]>>)],
           [k |-> "ConfidenceIntervalMethod",
            v |-> PyDict(<<[k |-> "Name", v |-> PyStr(name)]>>)]>>)

\* Bodies of indicator_metadata/by_indicator_id: the metadata of at most one indicator,
\* keyed by its ID as text.
MetadataBodies ==
  {PyDict(<<>>)}
    \cup {PyDict(<<[k |-> id, v |-> IndicatorMetadata(value, name)]>>) :
            id \in {<<"7">>, <<"1", "0">>},
            value \in {PyInt(<<"1">>), PyInt(<<"1", "0", "0">>)},
            name \in MethodNames}

\* The status lines the remote service answers a GET with.
HttpStatuses == {200, 404, 500}

\* The answers of the remote service to a JSON fetch, as JsonResponses, with what
\* the client does not look at: the status of the response that was received (0 when
\* none was) and what an SSLError was raised for, the verification of the
\* certificate or the handshake, which fails again without verification.
FetchResponses(bodies) ==
  {[first |-> "ok", second |-> "none", body |-> b, status |-> s, tls |-> "none"] :
     b \in bodies, s \in HttpStatuses}
    \cup {[first |-> "SSLError", second |-> "ok", body |-> b, status |-> s,
           tls |-> "verification"] : b \in bodies, s \in HttpStatuses}
    \cup {[first |-> "ConnectionError", second |-> "none", body |-> <<>>, status |-> 0,
           tls |-> "none"],
          [first |-> "SSLError", second |-> "ConnectionError", body |-> <<>>, status |-> 0,
           tls |-> "verification"],
          [first |-> "SSLError", second |-> "SSLError", body |-> <<>>, status |-> 0,
           tls |-> "handshake"]}

MakeRequest ==
  /\ op = "idle"
  /\ \E attr \in {"Id", "Name"}, r \in FetchResponses(JsonLists) :
       /\ Called("make_request", [attr |-> attr, r |-> r],
                 make_request(Url("ages", <<>>), attr, r))

GetProfileByName ==
  /\ op = "idle"
  /\ \E profile_name \in SearchTexts, r \in JsonResponses(JsonLists) :
       /\ Called("get_profile_by_name", [profile_name |-> profile_name, r |-> r],
                 get_profile_by_name(profile_name, r))

GetMultiplierAndCalculationForIndicator ==
  /\ op = "idle"
  /\ \E indicator_number \in {Seven, SevenStr}, r \in JsonResponses(MetadataBodies) :
       /\ Called("get_multiplier_and_calculation_for_indicator",
                 [indicator_number |-> indicator_number, r |-> r],
                 get_multiplier_and_calculation_for_indicator(indicator_number, r))

GetAreaTypeIdsForProfile ==
  /\ op = "idle"
  /\ \E profile_id \in {Seven, SevenStr}, r \in JsonResponses(JsonLists) :
       /\ Called("get_area_type_ids_for_profile", [profile_id |-> profile_id, r |-> r],
                 get_area_type_ids_for_profile(profile_id, r))

GetJson ==
  /\ op = "idle"
  /\ \E r \in FetchResponses(JsonLists) :
       /\ Called("get_json", [r |-> r], get_json(Url("ages", <<>>), r))

GetJsonReturnDf ==
  /\ op = "idle"
  /\ \E to_transpose \in BOOLEAN, r \in FetchResponses(JsonLists) :
       /\ Called("get_json_return_df", [transpose |-> to_transpose, r |-> r],
                 get_json_return_df(Url("ages", <<>>), to_transpose, r))

NextFetch ==
  \/ GetJson
  \/ MakeRequest
  \/ GetJsonReturnDf

\* The three JSON fetches of api_calls.py.
SpecFetch == Init /\ [][NextFetch]_vars

NextJson ==
  \/ MakeRequest
  \/ GetProfileByName
  \/ GetMultiplierAndCalculationForIndicator
  \/ GetAreaTypeIdsForProfile

\* The operations over JSON resources.
SpecJson == Init /\ [][NextJson]_vars

\* What a caller passes for area_type_id.
AreaTypeIdArgs ==
  {None, Seven, SevenStr, TenStr, PyList(<<>>), PyList(<<Seven, TenStr>>),
   PyList(<<TenStr, Seven>>)}

\* Bodies of area_types?profile_ids=: the area types of a profile.
AreaTypeObjects == {Object(Seven, PyStr(Ab)), Object(Ten, PyStr(aBc))}
AreaTypeBodies == SeqsUpTo(AreaTypeObjects, MaxAreaTypes)

\* Bodies of available_data: which area types have data of which indicator.
AvailableData ==
  {PyDict(<<[k |-> "IndicatorId", v |-> i], [k |-> "AreaTypeId", v |-> a]>>) :
     i \in {Seven, Ten}, a \in {Seven, Ten}}
AvailableDataBodies == SeqsUpTo(AvailableData, MaxAreaTypes)

\* No JSON request is issued: the answer is not looked at.
Unasked == [first |-> "ConnectionError", second |-> "none", body |-> <<>>]

\* The answers an operation that raises on an HTTPError tells apart.
HttpCaughtResponses ==
  {r \in CsvResponses : r.first = "HTTPError" => r.relaxed = "RequestException"}

\* One answer for each request the loop of get_all_data_for_profile can issue.
ProfileDataTapes(profile_id, area_type_id, r) ==
  LET area_types == AreaTypesToFetch(profile_id, area_type_id, r)
      n == IF area_types.kind = "return" THEN Len(area_types.val) ELSE 0
  IN [1..n -> HttpCaughtResponses]

GetAllDataForProfile ==
  /\ op = "idle"
  /\ \E area_type_id \in AreaTypeIdArgs, filter_by_area_codes \in AreaCodeFilters,
        is_test \in Flags :
       \E r \in IF area_type_id = None THEN JsonResponses(AreaTypeBodies) ELSE {Unasked} :
         \E tape \in ProfileDataTapes(Seven, area_type_id, r) :
           Called("get_all_data_for_profile",
                  [profile_id |-> Seven, area_type_id |-> area_type_id,
                   filter_by_area_codes |-> filter_by_area_codes, is_test |-> is_test,
                   r |-> r, tape |-> tape],
                  get_all_data_for_profile(Seven, DefaultParentAreaTypeId, area_type_id,
                                           filter_by_area_codes, is_test, r, tape))

\* One answer for each request the loop over the geographies can issue.
GeographyTapes(indicator_id, r) ==
  LET areas_to_get == AreasToGet(indicator_id, r)
      n == IF areas_to_get.kind = "return" /\ areas_to_get.val # None
           THEN Len(areas_to_get.val.v) ELSE 0
  IN [1..n -> CsvResponses]

GetDataForIndicatorAtAllAvailableGeographies ==
  /\ op = "idle"
  /\ \E indicator_id \in {Seven, SevenStr}, r \in JsonResponses(AvailableDataBodies) :
       \E tape \in GeographyTapes(indicator_id, r) :
         Called("get_data_for_indicator_at_all_available_geographies",
                [indicator_id |-> indicator_id, r |-> r],
                get_data_for_indicator_at_all_available_geographies(indicator_id, r, tape))

GetAllAreasForAllIndicators ==
  /\ op = "idle"
  /\ \E r \in JsonResponses(AvailableDataBodies) :
       /\ Called("get_all_areas_for_all_indicators", [r |-> r],
                 get_all_areas_for_all_indicators(r))

\* Objects of value_notes, one of them without a Text.
ValueNotes ==
  {PyDict(<<[k |-> "Id", v |-> id], [k |-> "Text", v |-> PyStr(text)]>>) :
     id \in {PyInt(<<"1">>), PyInt(<<"2">>)}, text \in {Ab, aBc}}
    \cup {PyDict(<<[k |-> "Id", v |-> PyInt(<<"3">>)]>>)}
ValueNoteLists == SeqsUpTo(ValueNotes, MaxItems)

\* What a caller looks up: a name or a text, an ID.
LookupNames == {PyStr(Ab), PyStr(<<"z">>)}
LookupIds == {PyInt(<<"1">>), PyInt(<<"3">>), PyStr(<<"1">>)}

GetAgeId ==
  /\ op = "idle"
  /\ \E age \in LookupNames, is_test \in Flags, r \in JsonResponses(JsonLists) :
       /\ Called("get_age_id", [key |-> age, is_test |-> is_test, r |-> r],
                 get_age_id(age, is_test, r))

GetAgeFromId ==
  /\ op = "idle"
  /\ \E age_id \in LookupIds, is_test \in Flags, r \in JsonResponses(JsonLists) :
       /\ Called("get_age_from_id", [key |-> age_id, is_test |-> is_test, r |-> r],
                 get_age_from_id(age_id, is_test, r))

GetSexId ==
  /\ op = "idle"
  /\ \E sex \in LookupNames, is_test \in Flags, r \in JsonResponses(JsonLists) :
       /\ Called("get_sex_id", [key |-> sex, is_test |-> is_test, r |-> r],
                 get_sex_id(sex, is_test, r))

GetSexFromId ==
  /\ op = "idle"
  /\ \E sex_id \in LookupIds, is_test \in Flags, r \in JsonResponses(JsonLists) :
       /\ Called("get_sex_from_id", [key |-> sex_id, is_test |-> is_test, r |-> r],
                 get_sex_from_id(sex_id, is_test, r))

GetValueNoteId ==
  /\ op = "idle"
  /\ \E value_note \in LookupNames, is_test \in Flags, r \in JsonResponses(ValueNoteLists) :
       /\ Called("get_value_note_id", [key |-> value_note, is_test |-> is_test, r |-> r],
                 get_value_note_id(value_note, is_test, r))

NextLookups ==
  \/ GetAgeId
  \/ GetAgeFromId
  \/ GetSexId
  \/ GetSexFromId
  \/ GetValueNoteId

\* The identifier lookups.
SpecLookups == Init /\ [][NextLookups]_vars

GetAllAges ==
  /\ op = "idle"
  /\ \E is_test \in Flags, r \in JsonResponses(JsonLists) :
       /\ Called("get_all_ages", [is_test |-> is_test, r |-> r], get_all_ages(is_test, r))

GetAllAreas ==
  /\ op = "idle"
  /\ \E is_test \in Flags, r \in JsonResponses(JsonLists) :
       /\ Called("get_all_areas", [is_test |-> is_test, r |-> r], get_all_areas(is_test, r))

GetAllSexes ==
  /\ op = "idle"
  /\ \E is_test \in Flags, r \in JsonResponses(JsonLists) :
       /\ Called("get_all_sexes", [is_test |-> is_test, r |-> r], get_all_sexes(is_test, r))

GetAllValueNotes ==
  /\ op = "idle"
  /\ \E is_test \in Flags, r \in JsonResponses(ValueNoteLists) :
       /\ Called("get_all_value_notes", [is_test |-> is_test, r |-> r],
                 get_all_value_notes(is_test, r))

GetAreasForAreaType ==
  /\ op = "idle"
  /\ \E area_type_id \in {Seven, TenStr}, is_test \in Flags, r \in JsonResponses(JsonLists) :
       /\ Called("get_areas_for_area_type",
                 [area_type_id |-> area_type_id, is_test |-> is_test, r |-> r],
                 get_areas_for_area_type(area_type_id, is_test, r))

GetMetadataForAllIndicators ==
  /\ op = "idle"
  /\ \E include_definition \in Flags, include_system_content \in Flags, is_test \in Flags,
        r \in JsonResponses(MetadataBodies) :
       /\ Called("get_metadata_for_all_indicators",
                 [include_definition |-> include_definition,
                  include_system_content |-> include_system_content,
                  is_test |-> is_test, r |-> r],
                 get_metadata_for_all_indicators(include_definition, include_system_content,
                                                 is_test, r))

GetAreaTypesAsDict ==
  /\ op = "idle"
  /\ \E is_test \in Flags, r \in JsonResponses(JsonLists) :
       /\ Called("get_area_types_as_dict", [is_test |-> is_test, r |-> r],
                 get_area_types_as_dict(is_test, r))

GetProfileById ==
  /\ op = "idle"
  /\ \E profile_id \in {Seven, SevenStr}, is_test \in Flags, r \in JsonResponses(JsonObjects) :
       /\ Called("get_profile_by_id",
                 [profile_id |-> profile_id, is_test |-> is_test, r |-> r],
                 get_profile_by_id(profile_id, is_test, r))

GetAllProfiles ==
  /\ op = "idle"
  /\ \E is_test \in Flags, r \in JsonResponses(JsonLists) :
       /\ Called("get_all_profiles", [is_test |-> is_test, r |-> r],
                 get_all_profiles(is_test, r))

GetAreaTypesForProfile ==
  /\ op = "idle"
  /\ \E profile_id \in {Seven, SevenStr}, is_test \in Flags, r \in JsonResponses(JsonLists) :
       /\ Called("get_area_types_for_profile",
                 [profile_id |-> profile_id, is_test |-> is_test, r |-> r],
                 get_area_types_for_profile(profile_id, is_test, r))

GetMetadataForIndicator ==
  /\ op = "idle"
  /\ \E indicator_number \in {Seven, SevenStr}, is_test \in Flags,
        r \in JsonResponses(MetadataBodies) :
       /\ Called("get_metadata_for_indicator",
                 [indicator_number |-> indicator_number, is_test |-> is_test, r |-> r],
                 get_metadata_for_indicator(indicator_number, is_test, r))

NextIsTest ==
  \/ GetAllAges
  \/ GetAllAreas
  \/ GetAgeId
  \/ GetAgeFromId
  \/ GetAllSexes
  \/ GetSexId
  \/ GetSexFromId
  \/ GetAllValueNotes
  \/ GetValueNoteId
  \/ GetAreasForAreaType
  \/ GetMetadataForIndicator
  \/ GetMetadataForAllIndicatorsFromCsv
  \/ GetMetadataForAllIndicators
  \/ GetAreaTypesAsDict
  \/ GetProfileById
  \/ GetAllProfiles
  \/ GetAreaTypesForProfile
  \/ GetMetadataForIndicatorAsDataframe
  \/ GetMetadataForDomainAsDataframe
  \/ GetDataByIndicatorIds
  \/ GetAllDataForProfile
  \/ GetAllDataForIndicators

\* The public operations that have an is_test flag.
SpecIsTest == Init /\ [][NextIsTest]_vars

\* The data of a profile, one request per area type.
SpecProfileData == Init /\ [][GetAllDataForProfile]_vars

\* The data of an indicator at all its geographies.
NextGeographies ==
  \/ GetAllAreasForAllIndicators
  \/ GetDataForIndicatorAtAllAvailableGeographies

SpecGeographies == Init /\ [][NextGeographies]_vars

NextLoops ==
  \/ GetMetadataForDomainAsDataframe
  \/ GetMetadataForProfileAsDataframe
  \/ GetAllDataForProfile

\* The operations that loop over an ID list or an area-type set.
SpecLoops == Init /\ [][NextLoops]_vars

(***************************************************************************)
(* What the log and the result of a call say.                              *)
(***************************************************************************)
\* The requests of the log that fn issued.
IssuedBy(fn) == SelectSeq(log, LAMBDA q : q.fn = fn)

\* The URLs of a sequence of requests.
UrlsOf(reqs) == [i \in 1..Len(reqs) |-> reqs[i].url]

RECURSIVE Flatten(_)
\* The rows of a sequence of tables, in order.
Flatten(tables) == IF tables = <<>> THEN <<>> ELSE tables[1] \o Flatten(Tail(tables))

\* The tables the remote service served during the call, in request order.
ServedTables ==
  LET served == SelectSeq(log, LAMBDA q : q.res = "ok")
  IN [i \in 1..Len(served) |-> served[i].body]

Returned == out.kind = "return"

(***************************************************************************)
(* C1: in every operation that fetches a CSV table, a first GET that fails *)
(* with an HTTP-level error is not followed by a relaxed-transport request *)
(* for that URL, and the operation ends in an error.                       *)
(***************************************************************************)
C1_HttpErrorNotSwallowed ==
  \A i \in 1..Len(log) :
    log[i].fn = "read_csv" /\ log[i].res = "HTTPError" =>
      /\ out.kind = "raise"
      /\ \A j \in (i + 1)..Len(log) :
           ~(log[j].fn = "deal_with_url_error" /\ log[j].url = log[i].url)

(***************************************************************************)
(* C2: the domain and profile metadata of a list of N IDs, every request   *)
(* of which yields a table, issue one request per ID, in input order, and  *)
(* return the concatenation of the N tables in that order.                 *)
(***************************************************************************)
PerIdPath ==
  IF op = "get_metadata_for_domain_as_dataframe"
  THEN Url("indicator_metadata/csv/by_group_id", <<Param("group_id", <<>>)>>)
  ELSE Url("indicator_metadata/csv/by_profile_id", <<Param("profile_id", <<>>)>>)

\* The URL of the request for one ID of the list.
PerIdUrl(id) == [PerIdPath EXCEPT !.query[1].v = Str(id)]

C2_OneRequestPerIdLosslessConcat ==
  (/\ op \in {"get_metadata_for_domain_as_dataframe", "get_metadata_for_profile_as_dataframe"}
   /\ args.ids.t = "list"
   /\ Returned)
  => /\ UrlsOf(IssuedBy("read_csv")) = Map(PerIdUrl, args.ids.v)
     /\ Len(ServedTables) = Len(args.ids.v)
     /\ DataOf(out.val) = Flatten(ServedTables)
     /\ Len(out.val.rows) = Len(Flatten(ServedTables))

(***************************************************************************)
(* C3: get_metadata fails with the missing-parameter error exactly when    *)
(* none of its three parameters is provided.                               *)
(***************************************************************************)
Provided(x) == x.t # "None"

MissingParameterError ==
  /\ out.kind = "raise"
  /\ out.exc = "NameError"
  /\ out.msg = <<"At least one of indicator_ids, domain_ids, or profile_ids must be provided.">>

C3_MissingParameterIffNoneProvided ==
  op = "get_metadata" =>
    (MissingParameterError <=>
       ~(Provided(args.indicator_ids) \/ Provided(args.domain_ids)
           \/ Provided(args.profile_ids)))

(***************************************************************************)
(* C4: for every non-empty subset of the parameters given to get_metadata, *)
(* the result is the concatenation of the tables of the provided           *)
(* dimensions in the order profile, domain, indicator: the requests of the *)
(* provided dimensions are issued in that order and the rows returned are  *)
(* the rows served, in that order.                                         *)
(***************************************************************************)
\* The URLs the table of one dimension is fetched from, by the operation of that
\* dimension alone.
DimensionUrls(path, param, ids, batch) ==
  IF ~Provided(ids) THEN <<>>
  ELSE IF ids.t = "list" /\ ~batch
  THEN [i \in 1..Len(ids.v) |-> Url(path, <<Param(param, Str(ids.v[i]))>>)]
  ELSE IF ids.t = "list"
  THEN <<Url(path, <<Param(param, Join(Map(Str, ids.v), <<",">>))>>)>>
  ELSE <<Url(path, <<Param(param, Str(ids))>>)>>

C4_ConcatProfileDomainIndicator ==
  (/\ op = "get_metadata"
   /\ Provided(args.indicator_ids) \/ Provided(args.domain_ids) \/ Provided(args.profile_ids)
   /\ Returned)
  => /\ UrlsOf(IssuedBy("read_csv")) =
          DimensionUrls("indicator_metadata/csv/by_profile_id", "profile_id",
                        args.profile_ids, FALSE)
            \o DimensionUrls("indicator_metadata/csv/by_group_id", "group_id",
                             args.domain_ids, FALSE)
            \o DimensionUrls("indicator_metadata/csv/by_indicator_id", "indicator_ids",
                             args.indicator_ids, TRUE)
     /\ DataOf(out.val) = Flatten(ServedTables)
     /\ Len(out.val.rows) = Len(Flatten(ServedTables))

(***************************************************************************)
(* C5: get_profile_by_name returns the last profile, in the source order   *)
(* of the profiles response, whose Name contains the text in any case, and *)
(* the 'not found' sentinel, with no error, when no profile matches.       *)
(***************************************************************************)
\* The remote service served the JSON request of the call.
JsonServed == args.r.first = "ok" \/ (args.r.first = "SSLError" /\ args.r.second = "ok")

\* text occurs in whole, letter case ignored.
ContainsAnyCase(text, whole) ==
  \E i \in 0..(Len(whole) - Len(text)) :
    \A j \in 1..Len(text) : LowerChar(whole[i + j]) = LowerChar(text[j])

\* The profile has a Name, and it contains the text searched.
NameMatches(profile) ==
  /\ DictHas(profile, "Name")
  /\ ContainsAnyCase(args.profile_name.v, DictGet(profile, "Name").v)

\* The places of the profiles response whose profile matches.
MatchingPlaces == {i \in 1..Len(args.r.body) : NameMatches(args.r.body[i])}

LastOf(places) == CHOOSE i \in places : \A j \in places : j <= i

LastMatchOrSentinel ==
  /\ Returned
  /\ MatchingPlaces # {} => out.val = args.r.body[LastOf(MatchingPlaces)]
  /\ MatchingPlaces = {} => out.val = ProfileNotFound

\* The claim as stated: for every profiles response that is served.
C5_LastMatchInSourceOrder ==
  (op = "get_profile_by_name" /\ JsonServed) => LastMatchOrSentinel

\* The profiles response is not empty, every profile has a Name, and no two
\* profiles have the same value of the key field (the first field of the first
\* profile).
WellFormedProfiles ==
  LET body == args.r.body
      key == DictKeys(body[1])[1]
  IN /\ body # <<>>
     /\ \A i \in 1..Len(body) : DictHas(body[i], "Name")
     /\ \A i, j \in 1..Len(body) :
          i # j => DictGet(body[i], key) # DictGet(body[j], key)

\* C5 as amended: the claim for a non-empty profiles response of profiles that
\* all have a Name and have distinct keys.
C5_LastMatchForDistinctKeys ==
  (op = "get_profile_by_name" /\ JsonServed /\ WellFormedProfiles) => LastMatchOrSentinel

\* Two profiles match and the later one is returned.
C5_Witness ==
  /\ op = "get_profile_by_name"
  /\ JsonServed
  /\ WellFormedProfiles
  /\ Cardinality(MatchingPlaces) >= 2
  /\ out.val = args.r.body[LastOf(MatchingPlaces)]

(***************************************************************************)
(* C6: get_multiplier_and_calculation_for_indicator returns 'Byar' for a   *)
(* method name that contains 'byar' in any case, 'Wilson' for one that     *)
(* contains 'wilson' in any case and None for any other, with the          *)
(* multiplier Unit.Value of the metadata.                                  *)
(***************************************************************************)
\* The metadata of the indicator asked for, in the body served.
AskedMetadata == DictGet(args.r.body, Str(args.indicator_number))
MethodName == DictGet(DictGet(AskedMetadata, "ConfidenceIntervalMethod"), "Name").v
UnitValue == DictGet(DictGet(AskedMetadata, "Unit"), "Value")

HasByar == ContainsAnyCase(Byar, MethodName)
HasWilson == ContainsAnyCase(Wilson, MethodName)

MultiplierReturned ==
  op = "get_multiplier_and_calculation_for_indicator" /\ Returned

\* The claim as stated.
C6_ByarWilsonOrNone ==
  MultiplierReturned =>
    /\ out.val[1] = UnitValue
    /\ HasByar => out.val[2] = PyStr(Byar)
    /\ HasWilson => out.val[2] = PyStr(Wilson)
    /\ ~HasByar /\ ~HasWilson => out.val[2] = None

\* C6 as amended: 'Wilson' for a name that contains 'wilson', 'Byar' for one that
\* contains 'byar' and not 'wilson', None for any other.
C6_WilsonBeforeByar ==
  MultiplierReturned =>
    /\ out.val[1] = UnitValue
    /\ HasWilson => out.val[2] = PyStr(Wilson)
    /\ HasByar /\ ~HasWilson => out.val[2] = PyStr(Byar)
    /\ ~HasByar /\ ~HasWilson => out.val[2] = None

\* A name in another letter case that contains 'byar' alone is classified, with
\* the multiplier 100.
C6_Witness ==
  /\ MultiplierReturned
  /\ HasByar /\ ~HasWilson /\ ~In(Byar, MethodName)
  /\ out.val = <<PyInt(<<"1", "0", "0">>), PyStr(Byar)>>

(***************************************************************************)
(* C9: make_request over a list of objects that all have the key field:    *)
(* the key field is in no value record of the result, the keys of the      *)
(* result are the key-field values of the input, and each value record is  *)
(* an input object with that key, without its key field.                   *)
(***************************************************************************)
KeyFieldInEveryObject ==
  \A i \in 1..Len(args.r.body) : DictHas(args.r.body[i], args.attr)

\* The fields of an object other than the key field, as a set.
RemainingFields(object) == {it \in {object.v[i] : i \in 1..Len(object.v)} : it.k # args.attr}
FieldsOf(record) == {record.v[i] : i \in 1..Len(record.v)}

C9_PopModeMapping ==
  (op = "make_request" /\ JsonServed /\ KeyFieldInEveryObject) =>
    /\ Returned
    /\ \A i \in 1..Len(out.val.v) :
         /\ \A f \in FieldsOf(out.val.v[i].v) : f.k # args.attr
         /\ \E j \in 1..Len(args.r.body) :
              /\ DictGet(args.r.body[j], args.attr) = out.val.v[i].k
              /\ RemainingFields(args.r.body[j]) = FieldsOf(out.val.v[i].v)
              /\ Len(out.val.v[i].v.v) = Len(args.r.body[j].v) - 1
    /\ {out.val.v[i].k : i \in 1..Len(out.val.v)}
         = {DictGet(args.r.body[j], args.attr) : j \in 1..Len(args.r.body)}
    /\ \A i, j \in 1..Len(out.val.v) : i # j => out.val.v[i].k # out.val.v[j].k

\* A list with two objects of the same key and one of another key is normalized.
C9_Witness ==
  /\ op = "make_request"
  /\ JsonServed
  /\ KeyFieldInEveryObject
  /\ Len(args.r.body) = 3
  /\ Len(out.val.v) = 2

(***************************************************************************)
(* C7: get_all_data_for_profile called with filter_by_area_codes, a single *)
(* code or a list of codes, returns exactly the rows of the concatenation  *)
(* of the fetched tables whose area code is in the filter, under the row   *)
(* index 0..n-1, for any number of fetches.                                *)
(***************************************************************************)
\* The area code is the filter, or is in the filter.
InFilter(code, filter) ==
  IF filter.t = "list" THEN \E i \in 1..Len(filter.v) : filter.v[i].v = code
  ELSE filter.v = code

\* The rows the service served during the call whose area code is in the filter.
FilteredServedRows ==
  SelectSeq(Flatten(ServedTables),
            LAMBDA row : InFilter(row.AreaCode, args.filter_by_area_codes))

\* The table returned has these rows under the index 0..n-1.
FilteredAndReindexed ==
  /\ DataOf(out.val) = FilteredServedRows
  /\ \A i \in 1..Len(out.val.rows) : out.val.rows[i].idx = i - 1

C7_FilteredRowsWithResetIndex ==
  (op = "get_all_data_for_profile" /\ args.filter_by_area_codes # None) =>
    /\ Returned => FilteredAndReindexed
    /\ out.exc # "KeyError"

(***************************************************************************)
(* C8: the table get_data_for_indicator_at_all_available_geographies       *)
(* returns has no two rows that are equal in all columns, also when the    *)
(* fetches it merges overlap or the area-type list repeats an area type.   *)
(***************************************************************************)
C8_NoDuplicateRows ==
  (op = "get_data_for_indicator_at_all_available_geographies" /\ Returned) =>
    \A i, j \in 1..Len(out.val.rows) :
      i # j => RowData(out.val.rows[i]) # RowData(out.val.rows[j])

\* The area-type list repeats an area type, both fetches serve the same row, and
\* the table returned has it once.
C8_Witness ==
  /\ op = "get_data_for_indicator_at_all_available_geographies"
  /\ Returned
  /\ Len(IssuedBy("read_csv")) = 2
  /\ IssuedBy("read_csv")[1].url = IssuedBy("read_csv")[2].url
  /\ Len(Flatten(ServedTables)) = 2
  /\ Len(out.val.rows) = 1

(***************************************************************************)
(* C10: get_all_data_for_profile issues one data fetch per element of its  *)
(* area-type set and no other: for a single ID, integer or string, the one *)
(* fetch with child_area_type_id equal to it; for a list, one fetch per    *)
(* element; when area_type_id is not given, one fetch per ID of            *)
(* get_area_type_ids_for_profile(profile_id).                              *)
(***************************************************************************)
\* The area-type set of the call, as the claim describes it.
AreaTypeSet ==
  IF args.area_type_id = None
  THEN LET ids == get_area_type_ids_for_profile(args.profile_id, args.r)
       IN IF ids.kind = "return" THEN ids.val.v ELSE <<>>
  ELSE IF args.area_type_id.t = "list" THEN args.area_type_id.v
  ELSE <<args.area_type_id>>

\* The data URLs of the area-type set, in order.
AreaTypeSetUrls ==
  [i \in 1..Len(AreaTypeSet) |->
     ProfileDataUrl(AreaTypeSet[i], DefaultParentAreaTypeId, args.profile_id)]

\* The data URLs the call fetched, in order.
DataFetches == UrlsOf(IssuedBy("read_csv"))

C10_OneFetchPerAreaType ==
  op = "get_all_data_for_profile" =>
    /\ Len(DataFetches) <= Len(AreaTypeSetUrls)
    /\ DataFetches = SubSeq(AreaTypeSetUrls, 1, Len(DataFetches))
    /\ Returned => DataFetches = AreaTypeSetUrls

(***************************************************************************)
(* C11: in the loops of get_metadata_for_domain_as_dataframe and           *)
(* get_metadata_for_profile_as_dataframe over an ID list and of            *)
(* get_all_data_for_profile over its area types, an HTTP-level failure of  *)
(* the request at position k ends the call in an error: no later request   *)
(* is issued, no table is returned, and for the domain and profile loops   *)
(* the error names the ID whose request failed.                            *)
(***************************************************************************)
PerIdLoop ==
  /\ op \in {"get_metadata_for_domain_as_dataframe", "get_metadata_for_profile_as_dataframe"}
  /\ args.ids.t = "list"

\* The position in the loop of the request log[i].
PositionOf(i) == Cardinality({j \in 1..i : log[j].fn = "read_csv"})

\* The error of the domain or profile loop that names the ID at position k.
NamesTheId(k) ==
  /\ out.exc = "NameError"
  /\ out.msg = <<IF op = "get_metadata_for_domain_as_dataframe" THEN "Domain" ELSE "Profile",
                 Str(args.ids.v[k]), "does not exist">>

C11_HttpFailureEndsTheLoop ==
  (PerIdLoop \/ op = "get_all_data_for_profile") =>
    \A i \in 1..Len(log) :
      (log[i].fn = "read_csv" /\ log[i].res = "HTTPError") =>
        /\ i = Len(log)
        /\ out.kind = "raise"
        /\ out.val = None
        /\ PerIdLoop => NamesTheId(PositionOf(i))
        /\ op = "get_all_data_for_profile" => out.exc = "Exception"

\* The second request of a loop fails after the first served a row.
C11_Witness ==
  /\ PerIdLoop \/ op = "get_all_data_for_profile"
  /\ Len(IssuedBy("read_csv")) = 2
  /\ log[1].res = "ok" /\ log[1].body # <<>>
  /\ log[Len(log)].fn = "read_csv" /\ log[Len(log)].res = "HTTPError"
  /\ out.kind = "raise"

(***************************************************************************)
(* C12: get_data_by_indicator_ids builds one URL and every GET it issues   *)
(* targets it: the indicator IDs comma-joined in input order, then         *)
(* profile_id=<id> if and only if profile_id is given, then                *)
(* include_sortable_time_periods=yes if and only if that flag is given.    *)
(***************************************************************************)
\* The indicator IDs of the call, comma-joined in input order.
CommaJoinedIds ==
  IF args.indicator_ids.t = "list"
  THEN Join([i \in 1..Len(args.indicator_ids.v) |-> Str(args.indicator_ids.v[i])], <<",">>)
  ELSE Str(args.indicator_ids)

\* The URL the claim describes; the flag counts as given when it is True.
DataByIndicatorUrl ==
  Url("all_data/csv/by_indicator_id",
      <<Param("indicator_ids", CommaJoinedIds),
        Param("child_area_type_id", Str(args.area_type_id)),
        Param("parent_area_type_id", Str(DefaultParentAreaTypeId))>>
        \o (IF Provided(args.profile_id)
            THEN <<Param("profile_id", Str(args.profile_id))>> ELSE <<>>)
        \o (IF args.include_sortable_time_periods = PyBool(TRUE)
            THEN <<Param("include_sortable_time_periods", <<"y", "e", "s">>)>> ELSE <<>>))

C12_OneUrlWithOptionalParameters ==
  op = "get_data_by_indicator_ids" =>
    /\ Len(log) >= 1
    /\ \A i \in 1..Len(log) : log[i].url = DataByIndicatorUrl

(***************************************************************************)
(* C13: get_area_type_ids_for_profile returns the Id of every entry of the *)
(* area-type response of the profile, in source order: as many elements as *)
(* the response has entries, an Id that appears twice appearing twice.     *)
(***************************************************************************)
\* The Id of the entry at place i of the response.
IdAt(i) == DictGet(args.r.body[i], "Id")

FirstPlaces == {i \in 1..Len(args.r.body) : \A j \in 1..(i - 1) : IdAt(j) # IdAt(i)}

\* The n-th of these places.
NthFirstPlace(n) ==
  CHOOSE i \in FirstPlaces : Cardinality({j \in FirstPlaces : j <= i}) = n

AreaTypeIdsOf(ind) ==
  LET items == SelectSeq(args.r.body, LAMBDA item : DictGet(item, "IndicatorId") = ind)
  IN [i \in 1..Len(items) |-> DictGet(items[i], "AreaTypeId")]

C14_SortedKeysSourceOrderValues ==
  (op = "get_all_areas_for_all_indicators" /\ JsonServed) =>
    /\ Returned
    /\ {out.val.v[i].k : i \in 1..Len(out.val.v)}
         = {DictGet(args.r.body[j], "IndicatorId") : j \in 1..Len(args.r.body)}
    /\ \A i, j \in 1..Len(out.val.v) :
         i < j => IntOf(out.val.v[i].k.v) < IntOf(out.val.v[j].k.v)
    /\ \A i \in 1..Len(out.val.v) :
         out.val.v[i].v = PyList(AreaTypeIdsOf(out.val.v[i].k))

\* The response lists indicator 10 before indicator 7, and the mapping has 7 first.
C14_Witness ==
  /\ op = "get_all_areas_for_all_indicators"
  /\ JsonServed
  /\ Len(args.r.body) >= 2
  /\ DictGet(args.r.body[1], "IndicatorId") = Ten
  /\ DictGet(args.r.body[2], "IndicatorId") = Seven
  /\ Returned
  /\ DictKeys(out.val) = <<Seven, Ten>>

(***************************************************************************)
(* C15: each identifier lookup (get_age_id, get_age_from_id, get_sex_id,   *)
(* get_sex_from_id, get_value_note_id) fetches its resource on every call  *)
(* and indexes the normalized mapping: for a lookup key present in the     *)
(* response it returns the opposite field of a record with that key, for   *)
(* an absent one it fails with a key-not-found error and returns no value. *)
(***************************************************************************)
Lookups == {"get_age_id", "get_age_from_id", "get_sex_id", "get_sex_from_id",
            "get_value_note_id"}

\* The resource, the key field and the opposite field of the lookup called.
LookupPath ==
  IF op \in {"get_age_id", "get_age_from_id"} THEN "ages"
  ELSE IF op \in {"get_sex_id", "get_sex_from_id"} THEN "sexes" ELSE "value_notes"
LookupKeyField ==
  IF op \in {"get_age_id", "get_sex_id"} THEN "Name"
  ELSE IF op = "get_value_note_id" THEN "Text" ELSE "Id"
LookupOppositeField == IF LookupKeyField = "Id" THEN "Name" ELSE "Id"

\* The places of the response whose record has the lookup key and the opposite field.
KeyPlaces ==
  {i \in 1..Len(args.r.body) :
     /\ DictGet(args.r.body[i], LookupKeyField) = args.key
     /\ DictHas(args.r.body[i], LookupOppositeField)}

\* The lookup key is in no record of the response.
KeyAbsent == \A i \in 1..Len(args.r.body) : DictGet(args.r.body[i], LookupKeyField) # args.key

\* The call requested the resource of the lookup, and nothing else.
FetchedAfresh ==
  /\ Len(log) >= 1
  /\ \A i \in 1..Len(log) : log[i].url = Url(LookupPath, <<>>)

KeyNotFound == out.kind = "raise" /\ out.exc = "KeyError" /\ out.val = None

\* The claim as stated.
C15_LookupReturnsOppositeField ==
  op \in Lookups =>
    /\ FetchedAfresh
    /\ JsonServed =>
         /\ KeyPlaces # {} =>
              /\ Returned
              /\ \E i \in KeyPlaces : out.val = DictGet(args.r.body[i], LookupOppositeField)
         /\ KeyAbsent => KeyNotFound

\* Every record of the response has the key field and the opposite field.
CompleteRecords ==
  \A i \in 1..Len(args.r.body) :
    DictHas(args.r.body[i], LookupKeyField) /\ DictHas(args.r.body[i], LookupOppositeField)

\* C15 as amended: the claim for a response whose records all have both fields,
\* the record being the last one with the lookup key.
C15_LookupOverCompleteRecords ==
  op \in Lookups =>
    /\ FetchedAfresh
    /\ (JsonServed /\ CompleteRecords) =>
         /\ KeyPlaces # {} =>
              /\ Returned
              /\ out.val = DictGet(args.r.body[LastOf(KeyPlaces)], LookupOppositeField)
         /\ KeyAbsent => KeyNotFound

\* Two records have the name looked up and the Id of the later one is returned.
C15_Witness ==
  /\ op = "get_age_id"
  /\ JsonServed /\ CompleteRecords
  /\ Cardinality(KeyPlaces) = 2
  /\ DictGet(args.r.body[1], "Id") # DictGet(args.r.body[LastOf(KeyPlaces)], "Id")
  /\ 1 \in KeyPlaces
  /\ Returned
  /\ out.val = DictGet(args.r.body[LastOf(KeyPlaces)], "Id")

(***************************************************************************)
(* C16: for every public operation that has an is_test flag, run against   *)
(* the same remote responses, the call with is_test=True issues the same   *)
(* requests as the call with is_test=False, and the first component of the *)
(* pair it returns is the value the call with is_test=False returns.       *)
(***************************************************************************)
\* The operation of the state, called again with the same arguments and the same
\* remote responses, with this is_test.
CalledWith(is_test) ==
  CASE op = "get_all_ages" -> get_all_ages(is_test, args.r)
    [] op = "get_all_areas" -> get_all_areas(is_test, args.r)
    [] op = "get_age_id" -> get_age_id(args.key, is_test, args.r)
    [] op = "get_age_from_id" -> get_age_from_id(args.key, is_test, args.r)
    [] op = "get_all_sexes" -> get_all_sexes(is_test, args.r)
    [] op = "get_sex_id" -> get_sex_id(args.key, is_test, args.r)
    [] op = "get_sex_from_id" -> get_sex_from_id(args.key, is_test, args.r)
    [] op = "get_all_value_notes" -> get_all_value_notes(is_test, args.r)
    [] op = "get_value_note_id" -> get_value_note_id(args.key, is_test, args.r)
    [] op = "get_areas_for_area_type" ->
         get_areas_for_area_type(args.area_type_id, is_test, args.r)
    [] op = "get_metadata_for_indicator" ->
         get_metadata_for_indicator(args.indicator_number, is_test, args.r)
    [] op = "get_metadata_for_all_indicators_from_csv" ->
         get_metadata_for_all_indicators_from_csv(is_test, args.r)
    [] op = "get_metadata_for_all_indicators" ->
         get_metadata_for_all_indicators(args.include_definition,
                                         args.include_system_content, is_test, args.r)
    [] op = "get_area_types_as_dict" -> get_area_types_as_dict(is_test, args.r)
    [] op = "get_profile_by_id" -> get_profile_by_id(args.profile_id, is_test, args.r)
    [] op = "get_all_profiles" -> get_all_profiles(is_test, args.r)
    [] op = "get_area_types_for_profile" ->
         get_area_types_for_profile(args.profile_id, is_test, args.r)
    [] op = "get_metadata_for_indicator_as_dataframe" ->
         get_metadata_for_indicator_as_dataframe(args.indicator_ids, is_test, args.r)
    [] op = "get_metadata_for_domain_as_dataframe" ->
         get_metadata_for_domain_as_dataframe(args.ids, is_test, args.tape)
    [] op = "get_data_by_indicator_ids" ->
         get_data_by_indicator_ids(args.indicator_ids, args.area_type_id,
                                   DefaultParentAreaTypeId, args.profile_id,
                                   args.include_sortable_time_periods, is_test, args.r)
    [] op = "get_all_data_for_profile" ->
         get_all_data_for_profile(args.profile_id, DefaultParentAreaTypeId,
                                  args.area_type_id, args.filter_by_area_codes, is_test,
                                  args.r, args.tape)
    [] op = "get_all_data_for_indicators" ->
         get_all_data_for_indicators(args.indicators, args.area_type_id,
                                     DefaultParentAreaTypeId, args.filter_by_area_codes,
                                     is_test, args.r)

\* The state is the end of a call with is_test=True.
CalledWithIsTest == op # "idle" /\ args.is_test = PyBool(TRUE)

C16_IsTestChangesNothingButTheUrl ==
  CalledWithIsTest =>
    /\ log = CalledWith(PyBool(FALSE)).log
    /\ out.kind = CalledWith(PyBool(FALSE)).kind
    /\ out.val = CalledWith(PyBool(FALSE)).val
    /\ out.exc = CalledWith(PyBool(FALSE)).exc

(***************************************************************************)
(* C17: for every public operation called with is_test=True, the URL of    *)
(* the pair returned is a URL the operation requested during the call; for *)
(* get_all_data_for_profile it is the URL of the last area-type request.   *)
(***************************************************************************)
C17_UrlReturnedWasRequested ==
  (CalledWithIsTest /\ Returned) =>
    /\ \E i \in 1..Len(log) : log[i].url = out.url
    /\ op = "get_all_data_for_profile" => out.url = log[Len(log)].url

(***************************************************************************)
(* C18: get_all_data_for_profile issues its requests one after the other   *)
(* in the order of the area-type sequence; a URL-level failure of one      *)
(* request triggers the relaxed-transport fallback for that request only,  *)
(* after which the loop goes on with the next area type; before any        *)
(* filtering the table holds all rows of all fetches, direct or fallback,  *)
(* in the order the requests were issued.                                  *)
(***************************************************************************)
\* The area-type sequence the loop of the call visits.
AreaTypeSequence ==
  LET area_types == AreaTypesToFetch(args.profile_id, args.area_type_id, args.r)
  IN IF area_types.kind = "return" THEN area_types.val ELSE <<>>

\* The data URLs of the area-type sequence, in order.
AreaTypeSequenceUrls ==
  [i \in 1..Len(AreaTypeSequence) |->
     ProfileDataUrl(AreaTypeSequence[i], DefaultParentAreaTypeId, args.profile_id)]

\* The requests are those of the first area types of the sequence, in order, and
\* of all of them when the call returns.
RequestsInSequenceOrder ==
  /\ Len(DataFetches) <= Len(AreaTypeSequenceUrls)
  /\ DataFetches = SubSeq(AreaTypeSequenceUrls, 1, Len(DataFetches))
  /\ Returned => DataFetches = AreaTypeSequenceUrls

\* A fallback request follows a URL-level failure of the same URL at once, every
\* such failure is followed by its fallback, and after a fallback that was served
\* the request of the next area type, if any, is issued.
FallbackForThatRequestOnly ==
  \A i \in 1..Len(log) :
    /\ log[i].fn = "deal_with_url_error" =>
         /\ i > 1
         /\ log[i - 1].fn = "read_csv" /\ log[i - 1].res = "URLError"
         /\ log[i - 1].url = log[i].url
    /\ (log[i].fn = "read_csv" /\ log[i].res = "URLError") =>
         /\ i < Len(log)
         /\ log[i + 1].fn = "deal_with_url_error"
    /\ (log[i].fn = "deal_with_url_error" /\ log[i].res = "ok"
          /\ PositionOf(i) < Len(AreaTypeSequence)) =>
         /\ i < Len(log)
         /\ log[i + 1].fn = "read_csv"

\* The rows returned are the rows served, in request order, those outside a given
\* filter left out.
AllRowsInRequestOrder ==
  Returned =>
    DataOf(out.val) = IF Truthy(args.filter_by_area_codes) THEN FilteredServedRows
                      ELSE Flatten(ServedTables)

JsonFetches == {"get_json", "make_request", "get_json_return_df"}

\* At most two GETs of one URL, the first verified, the second not.
AtMostTwoGets ==
  /\ Len(log) \in 1..2
  /\ log[1].fn = "requests.get"
  /\ Len(log) = 2 =>
       /\ log[2].fn = "requests.get(verify=False)"
       /\ log[2].url = log[1].url

\* The first GET failed the verification of the certificate.
VerificationFailed == log[1].res = "SSLError" /\ args.r.tls = "verification"

\* The last GET failed for another reason than TLS: no connection, or a response
\* with an error status.
NonTlsFailure ==
  \/ log[Len(log)].res = "ConnectionError"
  \/ log[Len(log)].res = "ok" /\ args.r.status >= 400

C19_SingleTlsRetry ==
  op \in JsonFetches =>
    /\ AtMostTwoGets
    /\ Len(log) = 2 <=> VerificationFailed
    /\ VerificationFailed => ~(out.kind = "raise" /\ out.exc = "SSLError")
    /\ NonTlsFailure => out.kind = "raise"

====
